---- MODULE Spec2Model ----
(***************************************************************************)
(* Model of the commitGenerator.generate command of src/src/extention.ts:  *)
(* the status parser, the type classifier, the scope resolver, the subject *)
(* and body composers, the message formatter and the command handler that  *)
(* runs them.  Texts are TLA+ strings handled character by character, as   *)
(* the JavaScript string methods of the source handle them.                *)
(***************************************************************************)
EXTENDS Integers, Sequences, FiniteSets, TLC

VARIABLES
    pc,               \* position of the command handler: idle, quickPick, inputBox, done
    workspaceFolder,  \* vscode.workspace.workspaceFolders?.[0] is defined
    execThrows,       \* execSync('git status --porcelain') throws
    status,           \* the text execSync returns
    includeFooter,    \* commitGenerator.includeFooter
    maxFilesInBody,   \* commitGenerator.maxFilesInBody
    gitExtension,     \* vscode.extensions.getExtension('vscode.git') is defined
    repositories,     \* git.repositories.length
    changes,          \* the GitChanges of the run
    typesToShow,      \* the items handed to showQuickPick
    type,             \* the selected label (<<>> is null)
    scope,            \* CommitStructure.scope (<<>> is undefined)
    subject,          \* CommitStructure.subject
    body,             \* CommitStructure.body (<<>> is undefined)
    footer,           \* CommitStructure.footer (<<>> is undefined)
    footerPrompted,   \* showInputBox was called
    message,          \* the text formatCommitMessage returned (<<>> before)
    inputBoxValue,    \* repo.inputBox.value (<<>> while never written)
    notifications     \* the messages shown, in order

vars == <<pc, workspaceFolder, execThrows, status, includeFooter, maxFilesInBody,
          gitExtension, repositories, changes, typesToShow, type, scope, subject,
          body, footer, footerPrompted, message, inputBoxValue, notifications>>

env == <<workspaceFolder, execThrows, status, includeFooter, maxFilesInBody,
         gitExtension, repositories>>

-----------------------------------------------------------------------------
(* JavaScript string methods *)

Min(a, b) == IF a < b THEN a ELSE b

Max(a, b) == IF a < b THEN b ELSE a

\* s.charAt(i - 1): the i-th character, "" out of range
CharAt(s, i) == IF i >= 1 /\ i <= Len(s) THEN SubSeq(s, i, i) ELSE ""

\* s.substring(a, b) with 0-based a (inclusive) and b (exclusive), clamped
Substring(s, a, b) ==
    LET lo == Min(Max(Min(a, b), 0), Len(s))
        hi == Min(Max(Max(a, b), 0), Len(s))
    IN  SubSeq(s, lo + 1, hi)

\* s.substring(a)
SubstringFrom(s, a) == Substring(s, a, Len(s))

\* the characters String.prototype.trim removes
IsWhiteSpace(c) == c \in {" ", "\n", "\t", "\r"}

RECURSIVE FirstNonSpace(_, _)
FirstNonSpace(s, i) ==
    IF i > Len(s) THEN i
    ELSE IF IsWhiteSpace(SubSeq(s, i, i)) THEN FirstNonSpace(s, i + 1)
    ELSE i

RECURSIVE LastNonSpace(_, _)
LastNonSpace(s, i) ==
    IF i < 1 THEN i
    ELSE IF IsWhiteSpace(SubSeq(s, i, i)) THEN LastNonSpace(s, i - 1)
    ELSE i

\* s.trim()
Trim(s) ==
    LET a == FirstNonSpace(s, 1)
        b == LastNonSpace(s, Len(s))
    IN  IF a > b THEN "" ELSE SubSeq(s, a, b)

\* s.indexOf(c, i - 1) + 1 for a one-character c; 0 when absent
RECURSIVE IndexOfChar(_, _, _)
IndexOfChar(s, c, i) ==
    IF i > Len(s) THEN 0
    ELSE IF SubSeq(s, i, i) = c THEN i
    ELSE IndexOfChar(s, c, i + 1)

\* s.split(c) for a one-character separator c
RECURSIVE SplitFrom(_, _, _)
SplitFrom(s, c, i) ==
    LET j == IndexOfChar(s, c, i)
    IN  IF j = 0 THEN <<SubSeq(s, i, Len(s))>>
        ELSE <<SubSeq(s, i, j - 1)>> \o SplitFrom(s, c, j + 1)

Split(s, c) == SplitFrom(s, c, 1)

\* s.includes(sub)
Includes(s, sub) ==
    \E i \in 1..(Len(s) - Len(sub) + 1) : SubSeq(s, i, i + Len(sub) - 1) = sub

\* a pattern sub$ : s ends with sub
EndsWith(s, sub) ==
    /\ Len(s) >= Len(sub)
    /\ SubSeq(s, Len(s) - Len(sub) + 1, Len(s)) = sub

FoldTable ==
    [ A |-> "a", B |-> "b", C |-> "c", D |-> "d", E |-> "e", F |-> "f", G |-> "g",
      H |-> "h", I |-> "i", J |-> "j", K |-> "k", L |-> "l", M |-> "m", N |-> "n",
      O |-> "o", P |-> "p", Q |-> "q", R |-> "r", S |-> "s", T |-> "t", U |-> "u",
      V |-> "v", W |-> "w", X |-> "x", Y |-> "y", Z |-> "z" ]

\* the case folding of the /i flag, for one character
LowerChar(c) == IF c \in DOMAIN FoldTable THEN FoldTable[c] ELSE c

\* the case-insensitive pattern word matches s at position i
MatchesAt(s, word, i) ==
    \A k \in 1..Len(word) : LowerChar(SubSeq(s, i + k - 1, i + k - 1)) = SubSeq(word, k, k)

\* /word/i.test(s) for a literal lower-case word
IncludesFold(s, word) == \E i \in 1..(Len(s) - Len(word) + 1) : MatchesAt(s, word, i)

\* /word$/i.test(s) for a literal lower-case word
EndsWithFold(s, word) == Len(s) >= Len(word) /\ MatchesAt(s, word, Len(s) - Len(word) + 1)

\* parts.join(sep)
RECURSIVE Join(_, _)
Join(parts, sep) ==
    IF Len(parts) = 0 THEN ""
    ELSE IF Len(parts) = 1 THEN parts[1]
    ELSE parts[1] \o sep \o Join(Tail(parts), sep)

Digits == "0123456789"

\* `${n}` for a non-negative integer n
RECURSIVE NumberToString(_)
NumberToString(n) ==
    IF n < 10 THEN SubSeq(Digits, n + 1, n + 1)
    ELSE NumberToString(n \div 10) \o SubSeq(Digits, (n % 10) + 1, (n % 10) + 1)

\* the elements of a sequence
Range(seq) == {seq[i] : i \in 1..Len(seq)}

\* [...new Set(seq)]: the distinct elements in order of first occurrence
RECURSIVE Unique(_)
Unique(seq) ==
    IF Len(seq) = 0 THEN <<>>
    ELSE LET init == Unique(SubSeq(seq, 1, Len(seq) - 1))
             last == seq[Len(seq)]
         IN  IF last \in Range(init) THEN init ELSE Append(init, last)

-----------------------------------------------------------------------------
(* parseGitStatus *)

EmptyChanges ==
    [modified |-> <<>>, added |-> <<>>, deleted |-> <<>>, renamed |-> <<>>,
     untracked |-> <<>>]

NonEmptyLine(line) == line # ""

\* const lines = status.trim().split('\n').filter(line => line)
StatusLines(text) == SelectSeq(Split(Trim(text), "\n"), NonEmptyLine)

\* line.substring(0, 2)
StatusCodeOf(line) == Substring(line, 0, 2)

\* line.substring(3).trim()
FileOf(line) == Trim(SubstringFrom(line, 3))

\* Classify with the deleted branch tested before the added branch
ClassifyDeletedFirst(statusCode) ==
    IF CharAt(statusCode, 1) = "M" \/ CharAt(statusCode, 2) = "M" THEN "modified"
    ELSE IF CharAt(statusCode, 1) = "D" \/ Includes(statusCode, "D") THEN "deleted"
    ELSE IF CharAt(statusCode, 1) = "A" \/ Includes(statusCode, "A") THEN "added"
    ELSE IF CharAt(statusCode, 1) = "R" \/ Includes(statusCode, "R") THEN "renamed"
    ELSE IF statusCode = "??" THEN "untracked"
    ELSE ""

\* the if / else-if chain on statusCode; "" when no branch is taken
Classify(statusCode) ==
    IF CharAt(statusCode, 1) = "M" \/ CharAt(statusCode, 2) = "M" THEN "modified"
    ELSE IF CharAt(statusCode, 1) = "A" \/ Includes(statusCode, "A") THEN "added"
    ELSE IF CharAt(statusCode, 1) = "D" \/ Includes(statusCode, "D") THEN "deleted"
    ELSE IF CharAt(statusCode, 1) = "R" \/ Includes(statusCode, "R") THEN "renamed"
    ELSE IF statusCode = "??" THEN "untracked"
    ELSE ""

\* one iteration of lines.forEach
ParseLine(acc, line) ==
    LET category == Classify(StatusCodeOf(line))
    IN  IF category = "" THEN acc
        ELSE [acc EXCEPT ![category] = Append(@, FileOf(line))]

RECURSIVE ParseLines(_, _)
ParseLines(acc, lines) ==
    IF Len(lines) = 0 THEN acc
    ELSE ParseLines(ParseLine(acc, Head(lines)), Tail(lines))

parseGitStatus(text) == ParseLines(EmptyChanges, StatusLines(text))

-----------------------------------------------------------------------------
(* selectCommitType *)

\* pattern.test(f) for a case-insensitive alternation of literal words
MatchesAny(f, words) == \E w \in words : IncludesFold(f, w)

\* pattern.test(f) for a case-insensitive alternation of literal suffixes
EndsWithAny(f, suffixes) == \E w \in suffixes : EndsWithFold(f, w)

\* the label and the description of the items; the detail texts take part in
\* no decision
types ==
    << [label |-> "feat",     description |-> "A new feature"],
       [label |-> "fix",      description |-> "A bug fix"],
       [label |-> "docs",     description |-> "Documentation"],
       [label |-> "style",    description |-> "Code style"],
       [label |-> "refactor", description |-> "Code refactoring"],
       [label |-> "test",     description |-> "Adding tests"],
       [label |-> "chore",    description |-> "Maintenance"],
       [label |-> "perf",     description |-> "Performance"] >>

\* the allFiles of selectCommitType
AllFilesWithUntracked(ch) ==
    ch.modified \o ch.added \o ch.deleted \o ch.renamed \o ch.untracked

\* /test|spec|__tests__/i
IsTestFile(f) == MatchesAny(f, {"test", "spec", "__tests__"})

\* f === 'package.json' || f === 'package-lock.json'
IsPackageFile(f) == f = "package.json" \/ f = "package-lock.json"

\* /readme|\.md$/i
IsDocFile(f) == MatchesAny(f, {"readme"}) \/ EndsWithAny(f, {".md"})

\* /\.css$|\.scss$|\.less$/i
IsStyleFile(f) == EndsWithAny(f, {".css", ".scss", ".less"})

\* autoDetect over the tracked categories only, untracked left out
autoDetectTrackedOnly(ch) ==
    LET allFiles == ch.modified \o ch.added \o ch.deleted \o ch.renamed
    IN  IF \E i \in 1..Len(allFiles) : IsTestFile(allFiles[i]) THEN <<"test">>
        ELSE IF \E i \in 1..Len(allFiles) : IsPackageFile(allFiles[i]) THEN <<"chore">>
        ELSE IF \E i \in 1..Len(allFiles) : IsDocFile(allFiles[i]) THEN <<"docs">>
        ELSE IF \A i \in 1..Len(allFiles) : IsStyleFile(allFiles[i]) THEN <<"style">>
        ELSE <<>>

\* the autoDetected of selectCommitType (<<>> is null)
autoDetect(ch) ==
    LET allFiles == AllFilesWithUntracked(ch)
    IN  IF \E i \in 1..Len(allFiles) : IsTestFile(allFiles[i]) THEN <<"test">>
        ELSE IF \E i \in 1..Len(allFiles) : IsPackageFile(allFiles[i]) THEN <<"chore">>
        ELSE IF \E i \in 1..Len(allFiles) : IsDocFile(allFiles[i]) THEN <<"docs">>
        ELSE IF \A i \in 1..Len(allFiles) : IsStyleFile(allFiles[i]) THEN <<"style">>
        ELSE <<>>

\* the typesToShow that selectCommitType hands to showQuickPick
selectCommitType(ch) ==
    LET autoDetected == autoDetect(ch)
        IsDetected(t) == t.label = autoDetected[1]
        IsNotDetected(t) == t.label # autoDetected[1]
        found == SelectSeq(types, IsDetected)
    IN  IF autoDetected # <<>> /\ found # <<>>
        THEN << [found[1] EXCEPT !.description = @ \o " (suggested)"] >>
             \o SelectSeq(types, IsNotDetected)
        ELSE types

-----------------------------------------------------------------------------
(* determineScope *)

\* the allFiles of determineScope
AllFilesTracked(ch) == ch.modified \o ch.added \o ch.deleted \o ch.renamed

\* f.split('/')[0]
FirstSegment(f) == Split(f, "/")[1]

NonEmptySegment(d) == d # ""

\* <<>> is undefined
determineScope(ch) ==
    LET allFiles == AllFilesTracked(ch)
        dirs == SelectSeq([i \in 1..Len(allFiles) |-> FirstSegment(allFiles[i])],
                          NonEmptySegment)
        uniqueDirs == Unique(dirs)
        Every(words) == \A i \in 1..Len(allFiles) : MatchesAny(allFiles[i], words)
    IN  IF Len(allFiles) = 0 THEN <<>>
        ELSE IF Len(uniqueDirs) = 1 /\ uniqueDirs[1] # "." THEN <<uniqueDirs[1]>>
        ELSE IF Every({"component"}) THEN <<"components">>
        ELSE IF Every({"api", "route"}) THEN <<"api">>
        ELSE IF Every({"util", "helper"}) THEN <<"utils">>
        ELSE IF Every({"type"}) THEN <<"types">>
        ELSE <<>>

-----------------------------------------------------------------------------
(* getFileName, categorizeFiles, generateSubject *)

RECURSIVE LastIndexOfChar(_, _, _)
LastIndexOfChar(s, c, i) ==
    IF i < 1 THEN 0
    ELSE IF SubSeq(s, i, i) = c THEN i
    ELSE LastIndexOfChar(s, c, i - 1)

\* fileName.replace(/\.[^/.]+$/, '')
StripExtension(fileName) ==
    LET k == LastIndexOfChar(fileName, ".", Len(fileName))
    IN  IF k = 0 \/ k = Len(fileName) THEN fileName
        ELSE IF Includes(SubSeq(fileName, k + 1, Len(fileName)), "/") THEN fileName
        ELSE SubSeq(fileName, 1, k - 1)

getFileName(path) ==
    LET parts == Split(path, "/")
        popped == parts[Len(parts)]
        fileName == IF popped # "" THEN popped ELSE path
    IN  StripExtension(fileName)

\* the entries of the categories object, in insertion order
categories ==
    << [name |-> "components",    words |-> {"component"},                 suffixes |-> {}],
       [name |-> "API routes",    words |-> {"api", "route", "controller"}, suffixes |-> {}],
       [name |-> "utilities",     words |-> {"util", "helper"},            suffixes |-> {}],
       [name |-> "styles",        words |-> {"style"},  suffixes |-> {".css", ".scss", ".less"}],
       [name |-> "tests",         words |-> {"test", "spec", "__tests__"}, suffixes |-> {}],
       [name |-> "configuration", words |-> {"config", ".config."},        suffixes |-> {}],
       [name |-> "types",         words |-> {"type"},                      suffixes |-> {".d.ts"}],
       [name |-> "documentation", words |-> {"readme", "doc"},             suffixes |-> {}],
       [name |-> "models",        words |-> {"model", "schema"},           suffixes |-> {}],
       [name |-> "services",      words |-> {"service"},                   suffixes |-> {}] >>

\* pattern.test(f) for the pattern of one category
CategoryMatches(cat, f) == MatchesAny(f, cat.words) \/ EndsWithAny(f, cat.suffixes)

\* The double 0.6 is Mant06 * 2^-53 with the 53-bit significand
\* Mant06 = Mant06Hi * 2^36 + Mant06Mid * 2^18 + Mant06Lo.
LimbBase == 262144

Mant06Hi == 78643

Mant06Mid == 52428

Mant06Lo == 209715

RECURSIVE Pow2(_)
Pow2(k) == IF k = 0 THEN 1 ELSE 2 * Pow2(k - 1)

\* the number of bits by which a product with top limb p2 exceeds 53 bits
RECURSIVE ExcessBits(_, _)
ExcessBits(p2, t) == IF p2 < Pow2(17 + t) THEN t ELSE ExcessBits(p2, t + 1)

\* files.length * 0.6 as IEEE-754 double arithmetic computes it: the exact
\* product n * Mant06, rounded to 53 significant bits, ties to even.  The
\* result is the limb triple <<r2, r1, r0>> of the value scaled by 2^53.
TimesPoint6(n) ==
    LET l0 == n * Mant06Lo
        p0 == l0 % LimbBase
        l1 == n * Mant06Mid + (l0 \div LimbBase)
        p1 == l1 % LimbBase
        p2 == n * Mant06Hi + (l1 \div LimbBase)
        t == ExcessBits(p2, 0)
        unit == Pow2(t)
        rem == p0 % unit
        q0 == p0 \div unit
        roundUp == /\ t > 0
                   /\ \/ 2 * rem > unit
                      \/ 2 * rem = unit /\ q0 % 2 = 1
        r0 == p0 - rem + (IF roundUp THEN unit ELSE 0)
        r1 == p1 + (r0 \div LimbBase)
        r2 == p2 + (r1 \div LimbBase)
    IN  <<r2, r1 % LimbBase, r0 % LimbBase>>

\* matchCount > files.length * 0.6
MoreThanSixtyPercent(matchCount, n) ==
    LET r == TimesPoint6(n)
        m2 == matchCount * Pow2(17)
    IN  m2 > r[1]

\* matchCount >= files.length * 0.6
AtLeastSixtyPercent(matchCount, n) ==
    LET r == TimesPoint6(n)
        m2 == matchCount * Pow2(17)
    IN  m2 > r[1] \/ (m2 = r[1] /\ r[2] = 0 /\ r[3] = 0)

\* filter(f => pattern.test(f)).length
MatchCount(cat, files) == Cardinality({i \in 1..Len(files) : CategoryMatches(cat, files[i])})

RECURSIVE CategorizeFrom(_, _)
CategorizeFrom(files, k) ==
    IF k > Len(categories) THEN <<>>
    ELSE IF AtLeastSixtyPercent(MatchCount(categories[k], files), Len(files))
         THEN <<categories[k].name>>
         ELSE CategorizeFrom(files, k + 1)

\* <<>> is null
categorizeFiles(files) == CategorizeFrom(files, 1)

\* the type-specific descriptions for many files
FallbackSubject(t, totalFiles) ==
    IF t = "feat" THEN "implement new feature"
    ELSE IF t = "fix" THEN "fix multiple issues"
    ELSE IF t = "refactor" THEN "refactor code structure"
    ELSE IF t = "docs" THEN "update documentation"
    ELSE IF t = "test" THEN "add test coverage"
    ELSE IF t = "style" THEN "format code"
    ELSE IF t = "chore" THEN "update dependencies"
    ELSE "update " \o NumberToString(totalFiles) \o " files"

\* the allFiles of generateSubject
SubjectPool(ch) == ch.modified \o ch.added \o ch.deleted

generateSubject(ch, t, totalFiles) ==
    LET allFiles == SubjectPool(ch)
        firstThree == SubSeq(allFiles, 1, Min(3, Len(allFiles)))
        fileNames == Join([i \in 1..Len(firstThree) |-> getFileName(firstThree[i])], ", ")
        addedCategory == categorizeFiles(ch.added)
        category == categorizeFiles(allFiles)
    IN  IF Len(ch.added) = totalFiles
        THEN IF totalFiles = 1 THEN "add " \o getFileName(ch.added[1])
             ELSE IF addedCategory # <<>> THEN "add " \o addedCategory[1]
             ELSE "add " \o NumberToString(totalFiles) \o " new files"
        ELSE IF Len(ch.deleted) = totalFiles
        THEN IF totalFiles = 1 THEN "remove " \o getFileName(ch.deleted[1])
             ELSE "remove " \o NumberToString(totalFiles) \o " files"
        ELSE IF Len(ch.modified) = 1 /\ totalFiles = 1
        THEN "update " \o getFileName(ch.modified[1])
        ELSE IF totalFiles <= 3 THEN "update " \o fileNames
        ELSE IF category # <<>> THEN "update " \o category[1]
        ELSE FallbackSubject(t, totalFiles)

-----------------------------------------------------------------------------
(* generateBody, generateSummary, generateFooter, formatCommitMessage *)

\* one block of generateBody: the header, a bullet per path, an empty line
Block(header, files) ==
    IF Len(files) > 0
    THEN <<header>> \o [i \in 1..Len(files) |-> "  - " \o files[i]] \o <<"">>
    ELSE <<>>

generateSummary(ch) ==
    LET Part(n, word) == IF n > 0 THEN <<NumberToString(n) \o " " \o word>> ELSE <<>>
        parts == Part(Len(ch.added), "added") \o Part(Len(ch.modified), "modified")
                 \o Part(Len(ch.deleted), "deleted") \o Part(Len(ch.renamed), "renamed")
    IN  "Changes: " \o Join(parts, ", ")

\* generateBody with the summary chosen from the threshold on
generateBodyFromThreshold(ch, totalFiles, maxFiles) ==
    LET lines == Block("Added:", ch.added) \o Block("Modified:", ch.modified)
                 \o Block("Deleted:", ch.deleted) \o Block("Renamed:", ch.renamed)
    IN  IF totalFiles >= maxFiles THEN generateSummary(ch)
        ELSE Trim(Join(lines, "\n"))

generateBody(ch, totalFiles, maxFiles) ==
    LET lines == Block("Added:", ch.added) \o Block("Modified:", ch.modified)
                 \o Block("Deleted:", ch.deleted) \o Block("Renamed:", ch.renamed)
    IN  IF totalFiles > maxFiles THEN generateSummary(ch)
        ELSE Trim(Join(lines, "\n"))

\* what generateFooter returns once showInputBox has yielded issueNumber
footerOf(issueNumber) ==
    IF issueNumber # <<>> /\ issueNumber[1] # "" /\ Trim(issueNumber[1]) # ""
    THEN <<"Closes #" \o Trim(issueNumber[1])>>
    ELSE <<>>

\* structure.x alone, without the trim
HasTextUntrimmed(opt) == opt # <<>> /\ opt[1] # ""

\* structure.x && structure.x.trim()
HasText(opt) == opt # <<>> /\ opt[1] # "" /\ Trim(opt[1]) # ""

formatCommitMessage(structure) ==
    LET header == structure.type
                  \o (IF structure.scope # <<>> /\ structure.scope[1] # ""
                      THEN "(" \o structure.scope[1] \o ")" ELSE "")
                  \o ": " \o structure.subject
        withBody == header \o (IF HasText(structure.body)
                               THEN "\n\n" \o structure.body[1] ELSE "")
    IN  withBody \o (IF HasText(structure.footer)
                     THEN "\n\n" \o structure.footer[1] ELSE "")

-----------------------------------------------------------------------------
(* the command handler of activate *)

Notification(kind, text) == [kind |-> kind, text |-> text]

\* the String(error) of the exception execSync throws
ExecErrorText == "Error: Command failed: git status --porcelain"

\* the totalFiles of buildCommitStructure
TotalFiles(ch) ==
    Len(ch.modified) + Len(ch.added) + Len(ch.deleted) + Len(ch.renamed)
    + Len(ch.untracked)

\* setCommitMessage followed by the showInformationMessage of the handler
Deliver(structure) ==
    LET text == formatCommitMessage(structure)
    IN  /\ message' = <<text>>
        /\ IF gitExtension /\ repositories > 0
           THEN /\ inputBoxValue' = <<text>>
                /\ notifications' =
                       Append(notifications,
                              Notification("information", "Commit message generated!"))
           ELSE /\ inputBoxValue' = inputBoxValue
                /\ notifications' =
                       notifications
                       \o << Notification("warning", "Could not find Git extension"),
                             Notification("information", "Commit message generated!") >>

\* The command is invoked: the handler runs until it returns or until it
\* awaits showQuickPick inside selectCommitType.
Invoke ==
    /\ pc = "idle"
    /\ IF ~workspaceFolder
       THEN /\ notifications' =
                   Append(notifications, Notification("error", "No workspace folder open"))
            /\ pc' = "done"
            /\ UNCHANGED <<changes, typesToShow>>
       ELSE IF execThrows
       THEN /\ notifications' =
                   Append(notifications,
                          Notification("error", "Failed to generate commit message: "
                                                \o ExecErrorText))
            /\ pc' = "done"
            /\ UNCHANGED <<changes, typesToShow>>
       ELSE IF Trim(status) = ""
       THEN /\ notifications' =
                   Append(notifications, Notification("warning", "No changes to commit"))
            /\ pc' = "done"
            /\ UNCHANGED <<changes, typesToShow>>
       ELSE /\ changes' = parseGitStatus(status)
            /\ typesToShow' = selectCommitType(changes')
            /\ pc' = "quickPick"
            /\ UNCHANGED notifications
    /\ UNCHANGED <<env, type, scope, subject, body, footer, footerPrompted, message,
                   inputBoxValue>>

\* the outcomes of showQuickPick: one of the items shown, or nothing
QuickPickResults == {<<>>} \cup {<<typesToShow[i]>> : i \in 1..Len(typesToShow)}

\* the null check placed after the call of generateFooter
CancelledAfterFooter ==
    /\ pc' = "done"
    /\ footerPrompted' = includeFooter
    /\ UNCHANGED <<type, scope, subject, body, footer, message, inputBoxValue,
                   notifications>>

\* selectCommitType returned null: buildCommitStructure returns null and the
\* handler returns
Cancelled ==
    /\ pc' = "done"
    /\ UNCHANGED <<type, scope, subject, body, footer, footerPrompted, message,
                   inputBoxValue, notifications>>

\* showQuickPick resolves with selected: buildCommitStructure runs until it
\* returns null, or until generateFooter awaits showInputBox, or to the end
\* of the handler.
PickType(selected) ==
    /\ pc = "quickPick"
    /\ IF selected = <<>> \/ selected[1].label = ""
       THEN Cancelled
       ELSE /\ type' = <<selected[1].label>>
            /\ scope' = determineScope(changes)
            /\ subject' = generateSubject(changes, type'[1], TotalFiles(changes))
            /\ body' = <<generateBody(changes, TotalFiles(changes), maxFilesInBody)>>
            /\ IF ~includeFooter
               THEN /\ footer' = <<>>
                    /\ footerPrompted' = footerPrompted
                    /\ pc' = "done"
                    /\ Deliver([type |-> type'[1], scope |-> scope', subject |-> subject',
                                body |-> body', footer |-> footer'])
               ELSE /\ footerPrompted' = TRUE
                    /\ pc' = "inputBox"
                    /\ UNCHANGED <<footer, message, inputBoxValue, notifications>>
    /\ UNCHANGED <<env, changes, typesToShow>>

\* the outcomes of showInputBox: dismissed, or the text typed
InputBoxResults == {<<>>, <<"   ">>, <<" 42 ">>}

\* showInputBox resolves with issueNumber: the handler runs to its end.
AnswerFooter(issueNumber) ==
    /\ pc = "inputBox"
    /\ footer' = footerOf(issueNumber)
    /\ pc' = "done"
    /\ Deliver([type |-> type[1], scope |-> scope, subject |-> subject,
                body |-> body, footer |-> footer'])
    /\ UNCHANGED <<env, changes, typesToShow, type, scope, subject, body, footerPrompted>>

Next ==
    \/ Invoke
    \/ \E selected \in QuickPickResults : PickType(selected)
    \/ \E issueNumber \in InputBoxResults : AnswerFooter(issueNumber)

-----------------------------------------------------------------------------
(* the inputs *)

\* the output of git status --porcelain for a sequence of lines
RECURSIVE TextOf(_)
TextOf(lines) == IF Len(lines) = 0 THEN "" ELSE Head(lines) \o "\n" \o TextOf(Tail(lines))

\* the texts of at most maxLines lines of a pool
TextsOver(pool, maxLines) ==
    {TextOf(ls) : ls \in UNION {[1..n -> pool] : n \in 0..maxLines}}

\* the lines <status> <path> of a set of status codes and a set of paths
LinesOf(codes, paths) == {c \o " " \o p : c \in codes, p \in paths}

\* the handler has not run
Fresh ==
    /\ pc = "idle"
    /\ changes = EmptyChanges
    /\ typesToShow = <<>>
    /\ type = <<>>
    /\ scope = <<>>
    /\ subject = ""
    /\ body = <<>>
    /\ footer = <<>>
    /\ footerPrompted = FALSE
    /\ message = <<>>
    /\ inputBoxValue = <<>>
    /\ notifications = <<>>

\* an open workspace, a working git and a repository
NormalEnv ==
    /\ workspaceFolder = TRUE
    /\ execThrows = FALSE
    /\ gitExtension = TRUE
    /\ repositories = 1

DefaultMaxFilesInBody == 20

MaxLines == 2

StatusCodes == {" M", "M ", "A ", "D ", "??", "UU"}

Paths == {"README.md", "src/app.ts"}

\* the environments of a run: workspace folder, execSync throws, git
\* extension, number of repositories
Environments ==
    { <<TRUE, FALSE, TRUE, 1>>, <<TRUE, FALSE, TRUE, 0>>, <<TRUE, FALSE, FALSE, 0>>,
      <<TRUE, TRUE, TRUE, 1>>, <<FALSE, FALSE, TRUE, 1>> }

Init ==
    /\ Fresh
    /\ status \in TextsOver(LinesOf(StatusCodes, Paths), MaxLines)
    /\ includeFooter \in BOOLEAN
    /\ maxFilesInBody = DefaultMaxFilesInBody
    /\ \E e \in Environments :
           /\ workspaceFolder = e[1]
           /\ execThrows = e[2]
           /\ gitExtension = e[3]
           /\ repositories = e[4]

Spec == Init /\ [][Next]_vars

-----------------------------------------------------------------------------
(* parseGitStatus applied to status texts of every two-character code *)

MaxParseLines == 2

StatusAlphabet == {" ", "M", "A", "D", "R", "?"}

AllStatusCodes == {a \o b : a \in StatusAlphabet, b \in StatusAlphabet} \ {"  "}

ApplyParse ==
    /\ pc = "idle"
    /\ changes' = parseGitStatus(status)
    /\ pc' = "done"
    /\ UNCHANGED <<env, typesToShow, type, scope, subject, body, footer, footerPrompted,
                   message, inputBoxValue, notifications>>

InitParse ==
    /\ Fresh
    /\ NormalEnv
    /\ status \in TextsOver(LinesOf(AllStatusCodes, {"Makefile"}), MaxParseLines)
    /\ includeFooter = FALSE
    /\ maxFilesInBody = DefaultMaxFilesInBody

NextParse == ApplyParse

SpecParse == InitParse /\ [][NextParse]_vars

-----------------------------------------------------------------------------
(* the status lines as git printed them, read without the parser *)

CategoryNames == {"modified", "added", "deleted", "renamed", "untracked"}

\* the lines of the text; the text ends every line with a line feed
RawLines(text) == SelectSeq(Split(text, "\n"), NonEmptyLine)

\* the two status characters and the path of a line <XY> <path>
RawCode(line) == SubSeq(line, 1, 2)

RawPath(line) == SubSeq(line, 4, Len(line))

HasLetter(code, letter) == SubSeq(code, 1, 1) = letter \/ SubSeq(code, 2, 2) = letter

PriorityLetters == <<"M", "A", "D", "R">>

PriorityCategories == <<"modified", "added", "deleted", "renamed">>

\* the category of the highest-priority letter of a code, else untracked
\* for ??, else "" (dropped)
CategoryByPriority(code) ==
    LET hits == {k \in 1..4 : HasLetter(code, PriorityLetters[k])}
    IN  IF hits # {} THEN PriorityCategories[CHOOSE k \in hits : \A j \in hits : k <= j]
        ELSE IF code = "??" THEN "untracked"
        ELSE ""

\* the raw lines that belong to a category
RawLinesOf(text, cat) ==
    LET InCat(line) == CategoryByPriority(RawCode(line)) = cat
    IN  SelectSeq(RawLines(text), InCat)

\* C1: every status line is counted in exactly the category of the
\* highest-priority letter of its two-character status (M, then A, then D,
\* then R, then ?? exactly), lines matching no rule are dropped, and the five
\* category lengths add up to the number of lines that match some rule.
C1_FirstMatchingRule ==
    pc = "done" =>
        /\ \A cat \in CategoryNames :
               Len(changes[cat]) = Len(RawLinesOf(status, cat))
        /\ TotalFiles(changes) =
               Len(RawLines(status)) - Len(RawLinesOf(status, ""))

C1_Witness ==
    /\ pc = "done"
    /\ status = "AM Makefile\nRD Makefile\n"
    /\ changes.modified = <<"Makefile">>
    /\ changes.deleted = <<"Makefile">>
    /\ TotalFiles(changes) = 2

\* C2: the path stored for a line <XY> <path> is exactly <path>, at every
\* position of the text and for statuses that start with a space.
C2_PathsStoredExactly ==
    typesToShow # <<>> =>
        \A cat \in CategoryNames :
            LET raw == RawLinesOf(status, cat)
            IN  changes[cat] = [i \in 1..Len(raw) |-> RawPath(raw[i])]

\* the lines of the text that match one of the five classification rules
ParsedLineCount(text) == Len(RawLines(text)) - Len(RawLinesOf(text, ""))

\* C3: when no status line is parsed into a category, the run reports that
\* there is nothing to commit, shows neither the type picker nor the footer
\* prompt and writes nothing to the input box.
C3_NothingToCommit ==
    (pc # "idle" /\ workspaceFolder /\ ~execThrows /\ ParsedLineCount(status) = 0) =>
        /\ pc = "done"
        /\ notifications = <<Notification("warning", "No changes to commit")>>
        /\ typesToShow = <<>>
        /\ ~footerPrompted
        /\ message = <<>>
        /\ inputBoxValue = <<>>

-----------------------------------------------------------------------------
(* selectCommitType on change-sets of typical paths *)

MaxTypeLines == 2

TypePaths ==
    {"src/app.spec.ts", "package.json", "lib/package.json", "docs/guide.MD", "Readme",
     "main.css", "src/app.ts"}

InitType ==
    /\ Fresh
    /\ NormalEnv
    /\ status \in TextsOver(LinesOf({"M ", "??"}, TypePaths), MaxTypeLines)
    /\ includeFooter = TRUE
    /\ maxFilesInBody = DefaultMaxFilesInBody

SpecType == InitType /\ [][Next]_vars

DefaultTypeOrder == <<"feat", "fix", "docs", "style", "refactor", "test", "chore", "perf">>

\* the paths of all five categories
AllPaths(ch) == UNION {Range(ch[cat]) : cat \in CategoryNames}

\* the suggestion, by first match over the paths of all categories
SuggestionFor(ch) ==
    LET P == AllPaths(ch)
        Has(p, word) == IncludesFold(p, word)
        Ends(p, ext) == EndsWithFold(p, ext)
    IN  IF \E p \in P : Has(p, "test") \/ Has(p, "spec") \/ Has(p, "__tests__")
        THEN <<"test">>
        ELSE IF "package.json" \in P \/ "package-lock.json" \in P THEN <<"chore">>
        ELSE IF \E p \in P : Has(p, "readme") \/ Ends(p, ".md") THEN <<"docs">>
        ELSE IF \A p \in P : Ends(p, ".css") \/ Ends(p, ".scss") \/ Ends(p, ".less")
        THEN <<"style">>
        ELSE <<>>

Labels(items) == [i \in 1..Len(items) |-> items[i].label]

\* C5: the suggestion is the first match of test, chore, docs, style over the
\* paths of all five categories; the list offered holds each of the eight
\* types exactly once, the suggested type first and the others in their
\* default order, or the default order when nothing is suggested.
C5_RankedCandidates ==
    typesToShow # <<>> =>
        LET labels == Labels(typesToShow)
            suggested == SuggestionFor(changes)
            NotSuggested(l) == l # suggested[1]
        IN  /\ Len(labels) = 8
            /\ Range(labels) = Range(DefaultTypeOrder)
            /\ IF suggested = <<>> THEN labels = DefaultTypeOrder
               ELSE /\ labels[1] = suggested[1]
                    /\ SubSeq(labels, 2, 8) = SelectSeq(DefaultTypeOrder, NotSuggested)

C5_Witness ==
    /\ pc = "quickPick"
    /\ changes.modified = <<"package.json">>
    /\ changes.untracked = <<"src/app.spec.ts">>
    /\ Labels(typesToShow) =
           <<"test", "feat", "fix", "docs", "style", "refactor", "chore", "perf">>

-----------------------------------------------------------------------------
(* scope and subject in the runs of Spec *)

\* the first line of a message
HeaderOf(text) == Split(text, "\n")[1]

\* C6: for the single modified file README.md the suggestion is docs, the
\* subject is update README and there is no scope, so the header for type
\* docs is docs: update README; a path without / never becomes the scope.
C6_ScenarioD ==
    /\ (type # <<>> /\ changes = [EmptyChanges EXCEPT !.modified = <<"README.md">>]) =>
           /\ typesToShow[1].label = "docs"
           /\ subject = "update README"
           /\ scope = <<>>
           /\ (type = <<"docs">> /\ message # <<>>) =>
                  HeaderOf(message[1]) = "docs: update README"
    /\ type # <<>> =>
           \A i \in 1..Len(RawLines(status)) :
               LET p == RawPath(RawLines(status)[i])
               IN  ~Includes(p, "/") => scope # <<p>>

\* C7: with one to three changed files and none of the rules 1-3 applying,
\* the subject is update followed by the non-empty comma-joined basenames of
\* the first three files of modified + added + deleted.
C7_SubjectNamesFiles ==
    LET total == TotalFiles(changes)
        pool == changes.modified \o changes.added \o changes.deleted
        named == SubSeq(pool, 1, Min(3, Len(pool)))
        list == Join([i \in 1..Len(named) |-> getFileName(named[i])], ", ")
    IN  ( /\ type # <<>>
          /\ total \in 1..3
          /\ Len(changes.added) # total
          /\ Len(changes.deleted) # total
          /\ ~(Len(changes.modified) = 1 /\ total = 1) ) =>
            /\ list # ""
            /\ subject = "update " \o list

-----------------------------------------------------------------------------
(* categorizeFiles on pools of up to MaxPool files *)

MaxPool == 10

\* k copies of a line
RECURSIVE Copies(_, _)
Copies(line, k) == IF k = 0 THEN <<>> ELSE <<line>> \o Copies(line, k - 1)

\* a components file, a file of components and utilities, a utilities file
PoolPaths ==
    <<"src/components/Button.tsx", "src/components/helpers.ts", "src/utils/format.ts">>

\* the texts of a + b + c lines of one status code, 1 <= a + b + c <= MaxPool
PoolTexts ==
    { TextOf(Copies(code \o " " \o PoolPaths[1], a)
             \o Copies(code \o " " \o PoolPaths[2], b)
             \o Copies(code \o " " \o PoolPaths[3], n - a - b)) :
        <<code, n, a, b>> \in
            { q \in {"A ", "M "} \X (1..MaxPool) \X (0..MaxPool) \X (0..MaxPool) :
                  q[3] + q[4] <= q[2] } }

InitCat ==
    /\ Fresh
    /\ NormalEnv
    /\ status \in PoolTexts
    /\ includeFooter = TRUE
    /\ maxFilesInBody = DefaultMaxFilesInBody

SpecCat == InitCat /\ [][Next]_vars

CategoryOrder ==
    <<"components", "API routes", "utilities", "styles", "tests", "configuration",
      "types", "documentation", "models", "services">>

\* the names of the categories whose pattern a path matches
NamesMatching(p) == {c.name : c \in {d \in Range(categories) : CategoryMatches(d, p)}}

\* NamesMatching of the paths of the pools
PoolPathNames == [p \in Range(PoolPaths) |-> NamesMatching(p)]

\* the number of files of a pool that match the pattern of a named category
Matching(name, pool) ==
    Cardinality({i \in 1..Len(pool) :
                     name \in (IF pool[i] \in DOMAIN PoolPathNames
                               THEN PoolPathNames[pool[i]] ELSE NamesMatching(pool[i]))})

\* the first category of the order with 10 * m >= 6 * n, <<>> when none,
\* for the numbers m of matching files per category of the order
FirstDominant(m, n) ==
    LET hits == {k \in 1..Len(CategoryOrder) : 10 * m[k] >= 6 * n}
    IN  IF hits = {} THEN <<>>
        ELSE <<CategoryOrder[CHOOSE k \in hits : \A j \in hits : k <= j]>>

\* C8: a category is dominant exactly when 10 * m >= 6 * n for the m files
\* of the pool of n that match it, and the subject names the first dominant
\* category of the fixed order, or none when no category is dominant.
C8_DominantThreshold ==
    type # <<>> =>
        LET total == TotalFiles(changes)
            pool == changes.modified \o changes.added \o changes.deleted
            n == Len(pool)
            m == [k \in 1..Len(CategoryOrder) |-> Matching(CategoryOrder[k], pool)]
            dominant == FirstDominant(m, n)
        IN  /\ \A k \in 1..Len(CategoryOrder) :
                   AtLeastSixtyPercent(m[k], n) <=> 10 * m[k] >= 6 * n
            /\ (Len(changes.added) = total /\ total >= 2) =>
                   subject = IF dominant # <<>> THEN "add " \o dominant[1]
                             ELSE "add " \o NumberToString(total) \o " new files"
            /\ (Len(changes.added) # total /\ Len(changes.deleted) # total /\ total >= 4) =>
                   subject = IF dominant # <<>> THEN "update " \o dominant[1]
                             ELSE FallbackSubject(type[1], total)

C8_Witness ==
    /\ pc = "done"
    /\ Len(changes.added) = 5
    /\ TotalFiles(changes) = 5
    /\ Matching("components", changes.added) = 3
    /\ Matching("utilities", changes.added) = 2
    /\ AtLeastSixtyPercent(3, 5)
    /\ subject = "add components"

-----------------------------------------------------------------------------
(* generateBody on change-sets of up to MaxBodyFiles files *)

MaxBodyFiles == 4

\* the i-th line of a category
LineOf(cat, i) ==
    LET n == NumberToString(i)
    IN  CASE cat = "added" -> "A  src/added" \o n \o ".ts"
          [] cat = "modified" -> "M  src/modified" \o n \o ".ts"
          [] cat = "deleted" -> "D  src/deleted" \o n \o ".ts"
          [] cat = "renamed" -> "R  src/renamed" \o n \o ".ts -> src/moved" \o n \o ".ts"
          [] cat = "untracked" -> "?? src/untracked" \o n \o ".ts"

\* the text of a added, m modified, d deleted, r renamed, u untracked lines
CountText(a, m, d, r, u) ==
    TextOf([i \in 1..a |-> LineOf("added", i)] \o [i \in 1..m |-> LineOf("modified", i)]
           \o [i \in 1..d |-> LineOf("deleted", i)] \o [i \in 1..r |-> LineOf("renamed", i)]
           \o [i \in 1..u |-> LineOf("untracked", i)])

CountTexts ==
    { CountText(q[1], q[2], q[3], q[4], q[5]) :
        q \in { t \in [1..5 -> 0..MaxBodyFiles] :
                    /\ t[1] + t[2] + t[3] + t[4] + t[5] >= 1
                    /\ t[1] + t[2] + t[3] + t[4] + t[5] <= MaxBodyFiles } }

ScenarioC == CountText(12, 10, 2, 0, 0)

\* the values of commitGenerator.maxFilesInBody tried with the small texts
SmallThresholds == {2, 3}

InitBody ==
    /\ Fresh
    /\ NormalEnv
    /\ includeFooter = TRUE
    /\ \/ status \in CountTexts /\ maxFilesInBody \in SmallThresholds
       \/ status = ScenarioC /\ maxFilesInBody = DefaultMaxFilesInBody

SpecBody == InitBody /\ [][Next]_vars

\* header, then one bullet per path of the raw lines of a category
ListingOf(header, raw) ==
    Join(<<header>> \o [i \in 1..Len(raw) |-> "  - " \o RawPath(raw[i])], "\n")

\* C9: the body is the one-line summary exactly when the total exceeds
\* maxFilesInBody: Changes: and the comma-joined counts of the non-zero
\* categories in the order added, modified, deleted, renamed; otherwise it
\* lists each non-empty category in that order, with no trailing whitespace;
\* untracked files appear in neither form.
C9_BodyOrSummary ==
    type # <<>> =>
        LET order == <<"added", "modified", "deleted", "renamed", "untracked">>
            headers == <<"Added:", "Modified:", "Deleted:", "Renamed:">>
            raw == [k \in 1..5 |-> RawLinesOf(status, order[k])]
            total == Len(raw[1]) + Len(raw[2]) + Len(raw[3]) + Len(raw[4]) + Len(raw[5])
            NonZero(k) == Len(raw[k]) > 0
            present == SelectSeq(<<1, 2, 3, 4>>, NonZero)
            parts == [j \in 1..Len(present) |->
                         NumberToString(Len(raw[present[j]])) \o " " \o order[present[j]]]
            blocks == [j \in 1..Len(present) |->
                          ListingOf(headers[present[j]], raw[present[j]])]
            text == body[1]
        IN  /\ total > maxFilesInBody => text = "Changes: " \o Join(parts, ", ")
            /\ total <= maxFilesInBody =>
                   /\ text = Join(blocks, "\n\n")
                   /\ text = "" \/ ~IsWhiteSpace(SubSeq(text, Len(text), Len(text)))
            /\ ~Includes(text, "untracked")
            /\ (status = ScenarioC /\ maxFilesInBody = 20) =>
                   text = "Changes: 12 added, 10 modified, 2 deleted"

C9_Witness ==
    /\ pc = "done"
    /\ TotalFiles(changes) = maxFilesInBody
    /\ changes.added = <<"src/added1.ts">>
    /\ changes.modified = <<>>
    /\ changes.deleted = <<"src/deleted1.ts">>
    /\ changes.renamed = <<>>
    /\ changes.untracked = <<"src/untracked1.ts">>
    /\ body = <<"Added:\n  - src/added1.ts\n\nDeleted:\n  - src/deleted1.ts">>

-----------------------------------------------------------------------------
(* formatCommitMessage applied to commit structures *)

StructureScopes == {<<>>, <<"">>, <<"src">>}

StructureSubjects == {"update README", "add Login"}

StructureBodies == {<<>>, <<"">>, <<" \n ">>, <<"Modified:\n  - README.md">>}

StructureFooters == {<<>>, <<"">>, <<"  ">>, <<"Closes #42">>}

ApplyFormat ==
    /\ pc = "idle"
    /\ message' = <<formatCommitMessage([type |-> type[1], scope |-> scope,
                                         subject |-> subject, body |-> body,
                                         footer |-> footer])>>
    /\ pc' = "done"
    /\ UNCHANGED <<env, changes, typesToShow, type, scope, subject, body, footer,
                   footerPrompted, inputBoxValue, notifications>>

InitFormat ==
    /\ pc = "idle"
    /\ NormalEnv
    /\ status = ""
    /\ includeFooter = FALSE
    /\ maxFilesInBody = DefaultMaxFilesInBody
    /\ changes = EmptyChanges
    /\ typesToShow = <<>>
    /\ type \in {<<types[i].label>> : i \in 1..Len(types)}
    /\ scope \in StructureScopes
    /\ subject \in StructureSubjects
    /\ body \in StructureBodies
    /\ footer \in StructureFooters
    /\ footerPrompted = FALSE
    /\ message = <<>>
    /\ inputBoxValue = <<>>
    /\ notifications = <<>>

NextFormat == ApplyFormat

SpecFormat == InitFormat /\ [][NextFormat]_vars

\* absent, empty or made of white space only
Blank(opt) ==
    opt = <<>> \/ \A i \in 1..Len(opt[1]) : IsWhiteSpace(SubSeq(opt[1], i, i))

\* C10: the message is type, (scope) when there is a scope, a colon and a
\* space, the subject; then a blank line and the body when the body is not
\* blank; then a blank line and the footer when the footer is not blank.
\* With blank body and footer it is exactly the header, with no trailing
\* line feed.
C10_MessageGrammar ==
    pc = "done" =>
        LET header == IF scope = <<>> \/ scope = <<"">>
                      THEN type[1] \o ": " \o subject
                      ELSE type[1] \o "(" \o scope[1] \o "): " \o subject
            text == message[1]
        IN  /\ (Blank(body) /\ Blank(footer)) =>
                   text = header /\ ~EndsWith(text, "\n")
            /\ (~Blank(body) /\ Blank(footer)) => text = header \o "\n\n" \o body[1]
            /\ (Blank(body) /\ ~Blank(footer)) => text = header \o "\n\n" \o footer[1]
            /\ (~Blank(body) /\ ~Blank(footer)) =>
                   text = header \o "\n\n" \o body[1] \o "\n\n" \o footer[1]

C10_Witness ==
    /\ pc = "done"
    /\ type = <<"feat">>
    /\ scope = <<"src">>
    /\ subject = "add Login"
    /\ body = <<" \n ">>
    /\ footer = <<"  ">>
    /\ message = <<"feat(src): add Login">>

-----------------------------------------------------------------------------
(* category subjects and the success notification *)

\* C11: a subject that names a category (add <category>, update <category>,
\* the per-type fallback phrase apart) is backed by at least one changed path
\* that matches the pattern of that category; with four or more files that
\* are all renamed or untracked no category is named and the subject is the
\* fallback phrase of the type.
C11_CategoryHasAMatch ==
    type # <<>> =>
        LET total == TotalFiles(changes)
            pool == changes.modified \o changes.added \o changes.deleted
        IN  /\ \A k \in 1..Len(CategoryOrder) :
                   ( /\ subject \in {"add " \o CategoryOrder[k], "update " \o CategoryOrder[k]}
                     /\ subject # FallbackSubject(type[1], total) ) =>
                       \E p \in AllPaths(changes) : CategoryOrder[k] \in NamesMatching(p)
            /\ (total >= 4 /\ Len(pool) = 0) => subject = FallbackSubject(type[1], total)

\* the texts of the notifications shown, in order
NotificationTexts == [i \in 1..Len(notifications) |-> notifications[i].text]

\* C12: the success notification is shown only when the message was written
\* to the input box of a repository in this run; after the warning that the
\* Git extension could not be found no success notification follows.
C12_SuccessOnlyWhenWritten ==
    /\ "Commit message generated!" \in Range(NotificationTexts) =>
           message # <<>> /\ inputBoxValue = message
    /\ \A i \in 1..Len(notifications) :
           NotificationTexts[i] = "Could not find Git extension" =>
               \A j \in (i + 1)..Len(notifications) :
                   NotificationTexts[j] # "Commit message generated!"

====
